---- MODULE Spec2Model ----
(***************************************************************************)
(* Model of the voice-agent bridge of src/main.py: one session handler     *)
(* (handle_twilio_connection) per telephony connection, each running the   *)
(* two forwarding loops twilio_to_deepgram and deepgram_to_twilio, and the *)
(* skill dispatcher execute_function of src/pharmacy_functions.py.         *)
(*                                                                         *)
(* The links are websockets: frames a peer has sent wait in an inbound     *)
(* queue until the reading loop takes them, and frames that were queued    *)
(* before the peer closed are still delivered after the close.             *)
(***************************************************************************)
EXTENDS Integers, Sequences, FiniteSets, TLC

\* ------------------------------------------------------------------ bounds

\* Frames the two peers send in total, over all sessions and both links.
MaxFrames == 3

\* Frames that may wait unread in one inbound queue.
MaxQueue == 1

\* Requests the agent sends in total where only the dispatch is followed.
MaxCalls == 2

\* The longest audio frame where the audio is sent there and back.
MaxLen == 3

\* The requests the agent sends where the tables of the skills are followed.
MaxHistory == 3

\* ---------------------------------------------------------------- sessions

\* Concurrent calls; each is one invocation of handle_twilio_connection.
Sessions == {1, 2}

None == "None"

\* The stream identifiers the telephony provider assigns to a call.
SidsOf(s) == IF s = 1 THEN {"MZ1", "MZ1b"} ELSE {"MZ2"}

\* ------------------------------------------------------------------ base64

\* A base64 text is a sequence of character codes: 0..63 are the alphabet
\* (the sextet values), PAD is '=', Junk is a character outside the alphabet.
PAD == 64
Junk == 65

\* base64 without the '=' padding of the last group.
b64encode_nopad(b) ==
    LET Sextets(n) == <<n \div 262144, (n \div 4096) % 64, (n \div 64) % 64, n % 64>>
        Group(i) ==
            IF i + 2 <= Len(b) THEN Sextets(b[i] * 65536 + b[i + 1] * 256 + b[i + 2])
            ELSE IF i + 1 <= Len(b) THEN SubSeq(Sextets(b[i] * 65536 + b[i + 1] * 256), 1, 3)
            ELSE SubSeq(Sextets(b[i] * 65536), 1, 2)
        F[i \in 1..(Len(b) + 3)] == IF i > Len(b) THEN <<>> ELSE Group(i) \o F[i + 3]
    IN  F[1]

RECURSIVE b64encode(_)
\* base64.b64encode: three bytes to four characters, '=' padding at the end.
b64encode(b) ==
    IF Len(b) = 0 THEN <<>>
    ELSE IF Len(b) = 1 THEN
        LET n == b[1] * 65536
        IN  <<n \div 262144, (n \div 4096) % 64, PAD, PAD>>
    ELSE IF Len(b) = 2 THEN
        LET n == b[1] * 65536 + b[2] * 256
        IN  <<n \div 262144, (n \div 4096) % 64, (n \div 64) % 64, PAD>>
    ELSE
        LET n == b[1] * 65536 + b[2] * 256 + b[3]
        IN  <<n \div 262144, (n \div 4096) % 64, (n \div 64) % 64, n % 64>>
            \o b64encode(SubSeq(b, 4, Len(b)))

RECURSIVE a2b_base64(_, _, _, _, _, _)
\* binascii.a2b_base64 in its default non-strict mode, which b64decode calls:
\* characters outside the alphabet are skipped, a complete pad sequence ends
\* the parse, and a quad left incomplete at the end is an error.
a2b_base64(s, i, quad_pos, leftchar, pads, out) ==
    IF i > Len(s) THEN
        IF quad_pos # 0 THEN [ok |-> FALSE, bytes |-> <<>>]
        ELSE [ok |-> TRUE, bytes |-> out]
    ELSE IF s[i] = PAD THEN
        IF quad_pos >= 2 /\ quad_pos + pads + 1 >= 4
        THEN [ok |-> TRUE, bytes |-> out]
        ELSE a2b_base64(s, i + 1, quad_pos, leftchar,
                        IF quad_pos >= 2 THEN pads + 1 ELSE pads, out)
    ELSE IF s[i] > PAD THEN
        a2b_base64(s, i + 1, quad_pos, leftchar, pads, out)
    ELSE IF quad_pos = 0 THEN
        a2b_base64(s, i + 1, 1, s[i], 0, out)
    ELSE IF quad_pos = 1 THEN
        a2b_base64(s, i + 1, 2, s[i] % 16, 0,
                   Append(out, (leftchar * 4 + s[i] \div 16) % 256))
    ELSE IF quad_pos = 2 THEN
        a2b_base64(s, i + 1, 3, s[i] % 4, 0,
                   Append(out, (leftchar * 16 + s[i] \div 4) % 256))
    ELSE
        a2b_base64(s, i + 1, 0, 0, 0,
                   Append(out, (leftchar * 64 + s[i]) % 256))

\* base64.b64decode(payload): the decoded bytes, or ok = FALSE where it raises.
b64decode(payload) == a2b_base64(payload, 1, 0, 0, 0, <<>>)

\* The audio the peers send in the model: empty, and a full group plus a byte.
SampleAudio == {<<>>, <<1, 2, 3, 255>>}

\* ---------------------------------------------------------- Python values

\* A text (str) is the sequence of its character codes.
\* str.lower and str.upper on the ASCII letters.
lower(w) == [i \in 1..Len(w) |-> IF w[i] \in 65..90 THEN w[i] + 32 ELSE w[i]]
upper(w) == [i \in 1..Len(w) |-> IF w[i] \in 97..122 THEN w[i] - 32 ELSE w[i]]

\* str.strip: leading and trailing blanks removed.
strip(w) ==
    LET inked == {i \in 1..Len(w) : w[i] # 32}
    IN  IF inked = {} THEN <<>>
        ELSE SubSeq(w, CHOOSE i \in inked : \A j \in inked : i <= j,
                       CHOOSE i \in inked : \A j \in inked : i >= j)

\* a in b of two texts: a occurs in b.
IsIn(a, b) == \E i \in 0..(Len(b) - Len(a)) : SubSeq(b, i + 1, i + Len(a)) = a

\* The values a field of a request may carry: a text, an integer or null.
PyStr(w) == [type |-> "str", s |-> w, n |-> 0]
PyInt(k) == [type |-> "int", s |-> <<>>, n |-> k]
PyNone == [type |-> "NoneType", s |-> <<>>, n |-> 0]

\* data.get('input', {}): a JSON object with the fields of the record r, or a
\* JSON value that is not an object.
Mapping(r) == [mapping |-> TRUE, kw |-> r]
NotAMapping == [mapping |-> FALSE, kw |-> <<>>]

\* The fields a JSON object has.
Keys(kw) == DOMAIN kw

\* A parameter that has the default None: the field, or None without it.
Get(kw, f) == IF f \in DOMAIN kw THEN kw[f] ELSE PyNone

\* ------------------------------------------------------------- pharmacy data

\* "aspirin", "tums", "lisinopril": three of the keys of INVENTORY.
Aspirin == <<97, 115, 112, 105, 114, 105, 110>>
Tums == <<116, 117, 109, 115>>
Lisinopril == <<108, 105, 115, 105, 110, 111, 112, 114, 105, 108>>

\* The keys in the order of the dict, which the partial match iterates in.
DrugOrder == <<Aspirin, Tums, Lisinopril>>
DrugKeys == {DrugOrder[i] : i \in 1..Len(DrugOrder)}

\* price (in cents) and requires_prescription of the entries; stock is state.
Catalog ==
    [k \in DrugKeys |->
        IF k = Aspirin THEN [price |-> 599, requires_prescription |-> FALSE]
        ELSE IF k = Tums THEN [price |-> 499, requires_prescription |-> FALSE]
        ELSE [price |-> 1249, requires_prescription |-> TRUE]]

\* "stock" of the entries when the module is loaded.
InitialStock ==
    [k \in DrugKeys |-> IF k = Aspirin THEN 50 ELSE IF k = Tums THEN 60 ELSE 8]

\* The order ids random.choices may draw: "A1B2C3" and "Z9Y8X7".
OrderIds == {<<65, 49, 66, 50, 67, 51>>, <<90, 57, 89, 56, 88, 55>>}

\* A text a skill or the dispatcher returns: the template, the values
\* formatted into it, and the function name and the exception text (str(e))
\* where the template has them.
Text(template, parts) ==
    [template |-> template, function_name |-> None, exc |-> "", parts |-> parts]

\* What a call comes to: the exception it raised (type "" if none) or the
\* text it returned.
Returns(text) == [type |-> "", msg |-> "", text |-> text]
Raises(type, msg) == [type |-> type, msg |-> msg, text |-> Text("", <<>>)]

\* ------------------------------------------------------------ pharmacy skills

\* INVENTORY.get(drug_key), then the first key of the dict that contains
\* drug_key or is contained in it: the key found, or <<>> for none.
FindDrug(drug_key) ==
    IF drug_key \in DrugKeys THEN drug_key
    ELSE LET hits == {i \in 1..Len(DrugOrder) :
                         IsIn(drug_key, DrugOrder[i]) \/ IsIn(DrugOrder[i], drug_key)}
         IN  IF hits = {} THEN <<>>
             ELSE DrugOrder[CHOOSE i \in hits : \A j \in hits : i <= j]

\* get_drug_info(drug_name).
get_drug_info(kw, inv) ==
    IF kw.drug_name.type # "str"
    THEN Raises("AttributeError", "'...' object has no attribute 'lower'")
    ELSE LET drug_key == FindDrug(strip(lower(kw.drug_name.s)))
         IN  IF drug_key = <<>>
             THEN Returns(Text("Sorry, we don't carry {drug_name}. Would you like ...",
                               <<kw.drug_name>>))
             ELSE IF inv[drug_key] > 0
             THEN Returns(Text("{drug_key} is ${price} and we have {stock} units ...",
                               <<PyStr(drug_key), PyInt(Catalog[drug_key].price),
                                 PyInt(inv[drug_key])>>))
             ELSE Returns(Text("Sorry, {drug_key} is currently out of stock.",
                               <<PyStr(drug_key)>>))

\* place_order without its stock check.
StockTooLowNever(stock, quantity) == FALSE

\* if drug["stock"] < quantity: the order is refused.
StockTooLow(stock, quantity) == stock < quantity

\* place_order without its prescription check.
RequiresPrescriptionNever(drug_key) == FALSE

\* if drug["requires_prescription"]: the order is refused.
RequiresPrescription(drug_key) == Catalog[drug_key].requires_prescription

\* place_order up to its stock check: the exception or the refusal it ends
\* with, or pass and the key of the drug the order will be for.
place_order_check(kw, inv) ==
    IF kw.drug_name.type # "str"
    THEN [pass |-> FALSE, drug_key |-> <<>>,
          out |-> Raises("AttributeError", "'...' object has no attribute 'lower'")]
    ELSE LET drug_key == FindDrug(strip(lower(kw.drug_name.s)))
             refuse(text) == [pass |-> FALSE, drug_key |-> drug_key, out |-> Returns(text)]
         IN  IF drug_key = <<>>
             THEN refuse(Text("Sorry, we don't carry {drug_name}. Cannot place order.",
                              <<kw.drug_name>>))
             ELSE IF RequiresPrescription(drug_key)
             THEN refuse(Text("{drug_key} requires a prescription. ...", <<PyStr(drug_key)>>))
             ELSE IF kw.quantity.type # "int"
             THEN [pass |-> FALSE, drug_key |-> drug_key,
                   out |-> Raises("TypeError",
                                  "'<' not supported between instances of 'int' and '...'")]
             ELSE IF StockTooLow(inv[drug_key], kw.quantity.n)
             THEN refuse(Text("Sorry, we only have {stock} units of {drug_key} in stock. ...",
                              <<PyInt(inv[drug_key]), PyStr(drug_key)>>))
             ELSE [pass |-> TRUE, drug_key |-> drug_key, out |-> Returns(Text("", <<>>))]

\* The rest of place_order: the order is stored under the id drawn (an entry
\* that id already has is replaced) and the stock is decremented. total is in
\* hundredths of a cent: price * quantity plus 8% tax.
place_order_commit(kw, drug_key, order_id, inv, orders) ==
    LET order == [customer_name |-> kw.customer_name, drug_name |-> drug_key,
                  quantity |-> kw.quantity.n,
                  total |-> Catalog[drug_key].price * kw.quantity.n * 108,
                  status |-> "processing"]
    IN  [out |-> Returns(Text("Order confirmed! Order ID: {order_id}. {quantity} units of ...",
                              <<PyStr(order_id), kw.quantity, PyStr(drug_key), kw.customer_name,
                                PyInt(order.total)>>)),
         INVENTORY |-> [inv EXCEPT ![drug_key] = @ - kw.quantity.n],
         ORDERS |-> [o \in DOMAIN orders \cup {order_id} |->
                        IF o = order_id THEN order ELSE orders[o]]]

\* check_order_status(order_id).
check_order_status(kw, orders) ==
    IF kw.order_id.type # "str"
    THEN Raises("AttributeError", "'...' object has no attribute 'upper'")
    ELSE LET key == strip(upper(kw.order_id.s))
         IN  IF key \notin DOMAIN orders
             THEN Returns(Text("I couldn't find an order with ID {order_id}. ...",
                               <<kw.order_id>>))
             ELSE Returns(Text("Order {order_id} for {customer_name}: {quantity} units ...",
                               <<PyStr(upper(kw.order_id.s)), orders[key].customer_name,
                                 PyInt(orders[key].quantity), PyStr(orders[key].drug_name),
                                 PyInt(orders[key].total)>>))

\* ------------------------------------------------------------ the calendar

\* A date is the number of its day, counted from a Monday that is the first
\* of January; every year has the days of a year that is not a leap year.
MonthDays == <<31, 28, 31, 30, 31, 30, 31, 31, 30, 31, 30, 31>>

RECURSIVE DaysBefore(_)
DaysBefore(month) == IF month = 1 THEN 0 ELSE MonthDays[month - 1] + DaysBefore(month - 1)

YearDays == DaysBefore(12) + MonthDays[12]

\* target.strftime("%A").
weekday(n) == n % 7
strftime_A(n) ==
    <<"Monday", "Tuesday", "Wednesday", "Thursday", "Friday", "Saturday",
      "Sunday">>[weekday(n) + 1]

\* "today", "tomorrow", and the list "days" of parse_date.
Today == <<116, 111, 100, 97, 121>>
Tomorrow == <<116, 111, 109, 111, 114, 114, 111, 119>>
days ==
    <<<<109, 111, 110, 100, 97, 121>>,
      <<116, 117, 101, 115, 100, 97, 121>>,
      <<119, 101, 100, 110, 101, 115, 100, 97, 121>>,
      <<116, 104, 117, 114, 115, 100, 97, 121>>,
      <<102, 114, 105, 100, 97, 121>>,
      <<115, 97, 116, 117, 114, 100, 97, 121>>,
      <<115, 117, 110, 100, 97, 121>>>>

\* The month names of %B, in lower case; %b has their first three letters.
MonthNames ==
    <<<<106, 97, 110, 117, 97, 114, 121>>,
      <<102, 101, 98, 114, 117, 97, 114, 121>>,
      <<109, 97, 114, 99, 104>>,
      <<97, 112, 114, 105, 108>>,
      <<109, 97, 121>>,
      <<106, 117, 110, 101>>,
      <<106, 117, 108, 121>>,
      <<97, 117, 103, 117, 115, 116>>,
      <<115, 101, 112, 116, 101, 109, 98, 101, 114>>,
      <<111, 99, 116, 111, 98, 101, 114>>,
      <<110, 111, 118, 101, 109, 98, 101, 114>>,
      <<100, 101, 99, 101, 109, 98, 101, 114>>>>

\* The first position of the character c in the text w, or 0.
Find(w, c) ==
    LET at == {i \in 1..Len(w) : w[i] = c}
    IN  IF at = {} THEN 0 ELSE CHOOSE i \in at : \A j \in at : i <= j

\* The number a directive such as %d or %m reads: one or two digits, or -1.
Number(w) ==
    IF Len(w) \notin {1, 2} \/ \E i \in 1..Len(w) : w[i] \notin 48..57 THEN -1
    ELSE IF Len(w) = 1 THEN w[1] - 48
    ELSE (w[1] - 48) * 10 + (w[2] - 48)

\* The month a name stands for under %B (abbreviated = FALSE) or %b, or 0;
\* the names match in any letter case.
MonthOf(w, abbreviated) ==
    LET name(i) == IF abbreviated THEN SubSeq(MonthNames[i], 1, 3) ELSE MonthNames[i]
        hits == {i \in 1..12 : name(i) = lower(w)}
    IN  IF hits = {} THEN 0 ELSE CHOOSE i \in hits : TRUE

\* A month and a day of it: the day of the year (from 0), or ValueError.
DayOfYear(month, day) ==
    IF month \in 1..12 /\ day >= 1 /\ day <= MonthDays[month]
    THEN [ok |-> TRUE, doy |-> DaysBefore(month) + day - 1]
    ELSE [ok |-> FALSE, doy |-> 0]

\* datetime.strptime(date_str, fmt) for the four formats of parse_date.
strptime(date_str, fmt) ==
    LET sep == IF fmt \in {"%B %d", "%b %d"} THEN 32 ELSE 47
        at == Find(date_str, sep)
        left == SubSeq(date_str, 1, at - 1)
        right == SubSeq(date_str, at + 1, Len(date_str))
    IN  IF at = 0 THEN [ok |-> FALSE, doy |-> 0]
        ELSE IF fmt = "%B %d" THEN DayOfYear(MonthOf(left, FALSE), Number(right))
        ELSE IF fmt = "%b %d" THEN DayOfYear(MonthOf(left, TRUE), Number(right))
        ELSE IF fmt = "%m/%d" THEN DayOfYear(Number(left), Number(right))
        ELSE DayOfYear(Number(right), Number(left))

Formats == <<"%B %d", "%b %d", "%m/%d", "%d/%m">>

\* parse_date(date_str) when datetime.now() is some time of the day today
\* after midnight: the day it resolves to.
parse_date(date_str, today) ==
    LET date_lower == strip(lower(date_str))
        named == {i \in 1..7 : days[i] = date_lower}
        parsing == {i \in 1..Len(Formats) : strptime(date_str, Formats[i]).ok}
    IN  IF date_lower = Today THEN today
        ELSE IF date_lower = Tomorrow THEN today + 1
        ELSE IF named # {}
        THEN LET target_day == (CHOOSE i \in named : TRUE) - 1
                 days_ahead == (target_day + 7 - weekday(today)) % 7
             IN  today + (IF days_ahead = 0 THEN 7 ELSE days_ahead)
        ELSE IF parsing # {}
        THEN LET fmt == Formats[CHOOSE i \in parsing : \A j \in parsing : i <= j]
                 target == (today \div YearDays) * YearDays + strptime(date_str, fmt).doy
             IN  IF target <= today THEN target + YearDays ELSE target
        ELSE today + 1

\* The days datetime.now() may fall on in the model: a week late in December,
\* from a Friday on, so that a date of that week is before, on and after it.
FirstDay == 354


\* ----------------------------------------------------------- appointment data

\* The keys of VISA_INFO, and "name" and "consultation_fee" of its entries.
Tourist == <<116, 111, 117, 114, 105, 115, 116>>
Student == <<115, 116, 117, 100, 101, 110, 116>>
Work == <<119, 111, 114, 107>>
Business == <<98, 117, 115, 105, 110, 101, 115, 115>>
Immigration == <<105, 109, 109, 105, 103, 114, 97, 116, 105, 111, 110>>
VisaKeys == {Tourist, Student, Work, Business, Immigration}
VISA_INFO ==
    [k \in VisaKeys |->
        IF k = Tourist THEN [name |-> "Tourist Visa", consultation_fee |-> "$50"]
        ELSE IF k = Student THEN [name |-> "Student Visa", consultation_fee |-> "$75"]
        ELSE IF k = Work THEN [name |-> "Work Visa", consultation_fee |-> "$100"]
        ELSE IF k = Business THEN [name |-> "Business Visa", consultation_fee |-> "$75"]
        ELSE [name |-> "Immigration Consulting", consultation_fee |-> "$150"]]

\* APPOINTMENTS is a dict: its entries in the order in which their codes were
\* first stored. An entry is [code, apt].
Has(apts, code) == \E i \in 1..Len(apts) : apts[i].code = code
At(apts, code) == CHOOSE i \in 1..Len(apts) : apts[i].code = code

\* APPOINTMENTS[code] = apt: the entry the code has is replaced, where it is.
Store(apts, code, apt) ==
    IF Has(apts, code) THEN [apts EXCEPT ![At(apts, code)].apt = apt]
    ELSE Append(apts, [code |-> code, apt |-> apt])

\* "confirmed" and "cancelled", the values of "status".
Confirmed == <<99, 111, 110, 102, 105, 114, 109, 101, 100>>
Cancelled == <<99, 97, 110, 99, 101, 108, 108, 101, 100>>


\* --------------------------------------------------------- appointment skills

\* The fallback text of a skill of appointment_functions: each body is one
\* try whose "except Exception" returns it.
Fallback(function_name) ==
    IF function_name = "get_available_slots"
    THEN Text("I'm having trouble checking availability. ...", <<>>)
    ELSE IF function_name = "book_appointment"
    THEN Text("I'm having trouble completing the booking. ...", <<>>)
    ELSE IF function_name = "get_visa_info"
    THEN Text("I'd be happy to provide visa information. ...", <<>>)
    ELSE IF function_name = "check_appointment"
    THEN Text("I'm having trouble looking up your appointment. ...", <<>>)
    ELSE IF function_name = "cancel_appointment"
    THEN Text("I'm having trouble processing the cancellation. ...", <<>>)
    ELSE Text("I'm having trouble processing your request. ...", <<>>)

\* x.lower() or x.upper() raises AttributeError: x is not a text.
NotText(x) == x.type # "str"

\* "x and x.lower()": as above, but only a truthy x is used.
Truthy(x) == (x.type = "str" /\ x.s # <<>>) \/ (x.type = "int" /\ x.n # 0)

\* Whether the body of get_available_slots or get_visa_info raises inside
\* its try (on the path that reaches the use of every field).
RaisesInside(function_name, kw) ==
    IF function_name = "get_available_slots"
    THEN NotText(kw.date)
         \/ (Truthy(Get(kw, "visa_type")) /\ NotText(Get(kw, "visa_type")))
    ELSE NotText(kw.visa_type)

\* get_available_slots or get_visa_info, which keep no state: the text of
\* the try block, or the fallback text.
appointment_skill(function_name, kw) ==
    IF RaisesInside(function_name, kw) THEN Returns(Fallback(function_name))
    ELSE Returns(Text("the reply of {function_name}", <<>>))

\* "x or default".
Or(x, default) == IF Truthy(x) THEN x ELSE default

\* book_appointment without its check of the day.
IsSundayNever(day_name) == FALSE

\* if day_name == "Sunday": the booking is refused.
IsSunday(day_name) == day_name = "Sunday"

\* book_appointment from the day parse_date resolved the date to, with the
\* confirmation code drawn.
book_on_day(kw, confirmation_code, target, apts) ==
    LET day_name == strftime_A(target)
        visa_key == IF lower(kw.visa_type.s) \in VisaKeys
                    THEN lower(kw.visa_type.s) ELSE Tourist
        visa_info == VISA_INFO[visa_key]
        apt == [customer_name |-> kw.customer_name,
                phone_number |-> kw.phone_number,
                date |-> target, day |-> day_name, time |-> kw.time,
                visa_type |-> visa_info.name, fee |-> visa_info.consultation_fee,
                status |-> Confirmed, cancellation_reason |-> PyNone]
    IN  IF IsSunday(day_name)
        THEN [out |-> Returns(Text("I'm sorry, we're closed on Sundays. ...", <<>>)),
              APPOINTMENTS |-> apts]
        ELSE IF NotText(kw.visa_type)
        THEN [out |-> Returns(Fallback("book_appointment")), APPOINTMENTS |-> apts]
        ELSE [out |-> Returns(Text("Perfect! I've booked your {name} consultation. ...",
                                   <<PyStr(confirmation_code), PyInt(target),
                                     kw.time, kw.phone_number>>)),
              APPOINTMENTS |-> Store(apts, confirmation_code, apt)]

\* book_appointment(customer_name, phone_number, date, time, visa_type) with
\* the confirmation code drawn and the day datetime.now() falls on.
book_appointment(kw, confirmation_code, today, apts) ==
    IF NotText(kw.date)
    THEN [out |-> Returns(Fallback("book_appointment")), APPOINTMENTS |-> apts]
    ELSE book_on_day(kw, confirmation_code, parse_date(kw.date.s, today), apts)

\* check_appointment(confirmation_code=None, phone_number=None).
check_appointment(kw, apts) ==
    LET confirmation_code == Get(kw, "confirmation_code")
        phone_number == Get(kw, "phone_number")
        found == {i \in 1..Len(apts) : apts[i].apt.phone_number = phone_number}
    IN  IF Truthy(confirmation_code) /\ NotText(confirmation_code)
        THEN Returns(Fallback("check_appointment"))
        ELSE IF Truthy(confirmation_code) /\ Has(apts, upper(confirmation_code.s))
        THEN LET apt == apts[At(apts, upper(confirmation_code.s))].apt
             IN  Returns(Text("I found your appointment. {customer_name}, you have a ...",
                              <<apt.customer_name, PyInt(apt.date), apt.time,
                                PyStr(apt.status)>>))
        ELSE IF Truthy(phone_number) /\ found # {}
        THEN LET i == CHOOSE i \in found : \A j \in found : i <= j
             IN  Returns(Text("I found an appointment for {customer_name}. ...",
                              <<apts[i].apt.customer_name, PyInt(apts[i].apt.date),
                                apts[i].apt.time, PyStr(apts[i].code)>>))
        ELSE Returns(Text("I couldn't find an appointment with those details. ...", <<>>))

\* cancel_appointment(confirmation_code, reason=None).
cancel_appointment(kw, apts) ==
    IF NotText(kw.confirmation_code)
    THEN [out |-> Returns(Fallback("cancel_appointment")), APPOINTMENTS |-> apts]
    ELSE LET code == strip(upper(kw.confirmation_code.s))
         IN  IF ~Has(apts, code)
             THEN [out |-> Returns(Text("I couldn't find an appointment with that code. ...",
                                        <<>>)),
                   APPOINTMENTS |-> apts]
             ELSE LET apt == apts[At(apts, code)].apt
                  IN  [out |-> Returns(Text("I've cancelled your {visa_type} consultation ...",
                                            <<PyInt(apt.date), apt.time>>)),
                       APPOINTMENTS |->
                           Store(apts, code,
                                 [apt EXCEPT !.status = Cancelled,
                                             !.cancellation_reason =
                                                 Or(Get(kw, "reason"),
                                                    PyStr(<<78, 111, 116, 32, 112, 114,
                                                            111, 118, 105, 100, 101,
                                                            100>>))])]

\* request_callback(customer_name, phone_number, inquiry_type=None) with the
\* reference number drawn.
request_callback(kw, callback_id, cbs) ==
    [out |-> Returns(Text("Thank you, {customer_name}. I've submitted a callback ...",
                          <<kw.customer_name, kw.phone_number, PyStr(callback_id)>>)),
     CALLBACK_REQUESTS |->
         Append(cbs, [id |-> callback_id, customer_name |-> kw.customer_name,
                      phone_number |-> kw.phone_number,
                      inquiry_type |->
                          Or(Get(kw, "inquiry_type"),
                             PyStr(<<71, 101, 110, 101, 114, 97, 108, 32, 105, 110,
                                     113, 117, 105, 114, 121>>)),
                      status |-> "pending"])]


\* The skills of appointment_functions that read or write its tables.
Stateful ==
    {"book_appointment", "check_appointment", "cancel_appointment", "request_callback"}

\* One of them, called with arguments that bind.
appointment_call(function_name, kw, code, today, apts, cbs) ==
    IF function_name = "book_appointment"
    THEN book_appointment(kw, code, today, apts) @@ [CALLBACK_REQUESTS |-> cbs]
    ELSE IF function_name = "check_appointment"
    THEN [out |-> check_appointment(kw, apts), APPOINTMENTS |-> apts,
          CALLBACK_REQUESTS |-> cbs]
    ELSE IF function_name = "cancel_appointment"
    THEN cancel_appointment(kw, apts) @@ [CALLBACK_REQUESTS |-> cbs]
    ELSE request_callback(kw, code, cbs) @@ [APPOINTMENTS |-> apts]

\* --------------------------------------------------------------- dispatcher

\* The two modules that define execute_function; main.py imports the first.
Modules == {"pharmacy_functions", "appointment_functions"}

\* The table "functions" of execute_function.
functions(module) ==
    IF module = "pharmacy_functions"
    THEN {"get_drug_info", "place_order", "check_order_status"}
    ELSE {"get_available_slots", "book_appointment", "get_visa_info",
          "check_appointment", "cancel_appointment", "request_callback"}

\* The parameters of a skill: those without a default, and those with one.
Signature(function_name) ==
    IF function_name = "get_drug_info"
    THEN [required |-> {"drug_name"}, optional |-> {}]
    ELSE IF function_name = "place_order"
    THEN [required |-> {"drug_name", "quantity", "customer_name"}, optional |-> {}]
    ELSE IF function_name = "check_order_status"
    THEN [required |-> {"order_id"}, optional |-> {}]
    ELSE IF function_name = "get_available_slots"
    THEN [required |-> {"date"}, optional |-> {"visa_type"}]
    ELSE IF function_name = "book_appointment"
    THEN [required |-> {"customer_name", "phone_number", "date", "time", "visa_type"},
          optional |-> {}]
    ELSE IF function_name = "get_visa_info"
    THEN [required |-> {"visa_type"}, optional |-> {"destination_country"}]
    ELSE IF function_name = "check_appointment"
    THEN [required |-> {}, optional |-> {"confirmation_code", "phone_number"}]
    ELSE IF function_name = "cancel_appointment"
    THEN [required |-> {"confirmation_code"}, optional |-> {"reason"}]
    ELSE [required |-> {"customer_name", "phone_number"}, optional |-> {"inquiry_type"}]

\* func(**parameters): the TypeError of a call that does not bind, if any.
bind(function_name, parameters) ==
    LET sig == Signature(function_name)
    IN  IF ~parameters.mapping
        THEN Raises("TypeError", "argument after ** must be a mapping, not ...")
        ELSE IF ~(Keys(parameters.kw) \subseteq sig.required \cup sig.optional)
        THEN Raises("TypeError", "got an unexpected keyword argument '...'")
        ELSE IF ~(sig.required \subseteq Keys(parameters.kw))
        THEN Raises("TypeError", "missing ... required positional argument")
        ELSE Returns(Text("", <<>>))

\* functions.get(function_name) and func(**parameters), up to the stock check
\* of place_order: what the call has come to (out), or pass when place_order
\* goes on to store the order. A stateful skill of appointment_functions that
\* binds has yet to run: it has come to nothing so far.
call_check(module, function_name, parameters, inv, orders) ==
    LET ended(out) == [pass |-> FALSE, known |-> TRUE, drug_key |-> <<>>, out |-> out]
        kw == parameters.kw
    IN  IF function_name \notin functions(module)
        THEN [pass |-> FALSE, known |-> FALSE, drug_key |-> <<>>,
              out |-> Returns(Text("", <<>>))]
        ELSE IF bind(function_name, parameters).type # ""
        THEN ended(bind(function_name, parameters))
        ELSE IF module = "appointment_functions"
        THEN IF function_name \in Stateful THEN ended(Returns(Text("", <<>>)))
             ELSE ended(appointment_skill(function_name, kw))
        ELSE IF function_name = "get_drug_info" THEN ended(get_drug_info(kw, inv))
        ELSE IF function_name = "check_order_status"
        THEN ended(check_order_status(kw, orders))
        ELSE LET c == place_order_check(kw, inv)
             IN  [pass |-> c.pass, known |-> TRUE, drug_key |-> c.drug_key, out |-> c.out]

\* The call is of a stateful skill of appointment_functions, which has bound
\* and has yet to run.
ToRun(module, function_name, called) ==
    /\ module = "appointment_functions" /\ function_name \in Stateful
    /\ called.known /\ called.out = Returns(Text("", <<>>))

\* No call is under way.
NoCall == [pass |-> FALSE, known |-> FALSE, drug_key |-> <<>>, out |-> Returns(Text("", <<>>))]

\* execute_function whose try has no except clause.
execute_function_reraise(module, function_name, called) ==
    IF ~called.known
    THEN [raised |-> FALSE,
          text |-> IF module = "pharmacy_functions"
                   THEN [Text("Unknown function: {function_name}", <<>>)
                            EXCEPT !.function_name = function_name]
                   ELSE Text("I'm not sure how to help with that. ...", <<>>)]
    ELSE [raised |-> called.out.type # "", text |-> called.out.text]

\* execute_function, given what the call of the skill has come to: the text
\* the skill returned, the text of the except clause that caught what it
\* raised, or the text for a name that is not in the table.
execute_function(module, function_name, called) ==
    IF ~called.known
    THEN [raised |-> FALSE,
          text |-> IF module = "pharmacy_functions"
                   THEN [Text("Unknown function: {function_name}", <<>>)
                            EXCEPT !.function_name = function_name]
                   ELSE Text("I'm not sure how to help with that. ...", <<>>)]
    ELSE IF called.out.type = ""
    THEN [raised |-> FALSE, text |-> called.out.text]
    ELSE IF module = "pharmacy_functions"
    THEN [raised |-> FALSE,
          text |-> [Text("Error executing {function_name}: {str(e)}", <<>>)
                       EXCEPT !.function_name = function_name, !.exc = called.out.msg]]
    ELSE IF called.out.type = "TypeError"
    THEN [raised |-> FALSE, text |-> Text("I need a bit more information. ...", <<>>)]
    ELSE [raised |-> FALSE, text |-> Text("I'm having a technical issue. ...", <<>>)]

\* ------------------------------------------------------------------ frames

\* A frame on the telephony link, as twilio_to_deepgram sees it: json says
\* whether json.loads accepts the text, hasPayload whether data['media']
\* ['payload'] exists.
TFrame(json, event, sid, hasPayload, payload) ==
    [json |-> json, event |-> event, streamSid |-> sid,
     hasPayload |-> hasPayload, payload |-> payload]

\* A base64 text whose last quad is incomplete: b64decode raises on it.
BadPadding == <<63, 48, PAD>>

TBadJson == TFrame(FALSE, None, None, FALSE, <<>>)
TStart(sid) == TFrame(TRUE, "start", sid, FALSE, <<>>)
TMedia(payload) == TFrame(TRUE, "media", None, TRUE, payload)
TMediaNoPayload == TFrame(TRUE, "media", None, FALSE, <<>>)
TStop == TFrame(TRUE, "stop", None, FALSE, <<>>)
TConnected == TFrame(TRUE, "connected", None, FALSE, <<>>)

\* The payload of each sample of audio, as the telephony peer encodes it.
Encoded == [b \in SampleAudio |-> b64encode(b)]

\* What the telephony peer may send on the connection of session s.
TwilioFrames(s) ==
    {TBadJson, TMediaNoPayload, TStop, TConnected, TMedia(BadPadding)}
        \cup {TStart(sid) : sid \in SidsOf(s)}
        \cup {TMedia(Encoded[b]) : b \in SampleAudio}

\* The frames of the audio path among them: Start, Media, Stop.
TwilioAudioFrames(s) ==
    {TStart(sid) : sid \in SidsOf(s)} \cup {TMedia(Encoded[<<1, 2, 3, 255>>]), TStop}

\* A Media envelope the loop can decode.
ValidMedia(m) ==
    m.json /\ m.event = "media" /\ m.hasPayload /\ b64decode(m.payload).ok

\* A frame whose decoding raises in twilio_to_deepgram.
TDecodeError(m) ==
    \/ ~m.json
    \/ m.event = "media" /\ ~m.hasPayload
    \/ m.event = "media" /\ m.hasPayload /\ ~b64decode(m.payload).ok

\* A frame on the agent link: binary audio, or text with a type field.
DFrame(kind, audio, name, callId, params) ==
    [kind |-> kind, audio |-> audio, function_name |-> name,
     function_call_id |-> callId, input |-> params]

\* The frames the telephony peer sends to some session, and those among them
\* that the loop can decode and that it cannot.
KnownFrames == UNION {TwilioFrames(s) \cup TwilioAudioFrames(s) : s \in Sessions}
KnownValid == {m \in KnownFrames : ValidMedia(m)}
KnownFaulty == {m \in KnownFrames : TDecodeError(m)}

\* ValidMedia and TDecodeError of a frame that was read.
IsValidMedia(m) == IF m \in KnownFrames THEN m \in KnownValid ELSE ValidMedia(m)
IsDecodeError(m) == IF m \in KnownFrames THEN m \in KnownFaulty ELSE TDecodeError(m)

DAudio(b) == DFrame("binary", b, None, None, NotAMapping)
DText(type) == DFrame(type, <<>>, None, None, NotAMapping)
DRequest(name, callId, params) ==
    DFrame("FunctionCallRequest", <<>>, name, callId, params)

\* The names the agent asks for: the three skills, one that does not exist,
\* and a request without function_name (data.get gives None).
FunctionNames ==
    {"get_drug_info", "place_order", "check_order_status", "bogus", None}

\* "tums" with a blank and a capital, "asp" (part of a key), "zinc" (no
\* key), and the customer "Al" and the text "two".
TumsTyped == <<32, 84, 117, 109, 115>>
Asp == <<97, 115, 112>>
Zinc == <<122, 105, 110, 99>>
Al == <<65, 108>>
Two == <<116, 119, 111>>

\* The requests the agent sends in the model: a skill that runs, a skill that
\* raises inside (quantity is a text), and a name that is not in the table.
Requests ==
    {DRequest("get_drug_info", "f1", Mapping([drug_name |-> PyStr(Tums)])),
     DRequest("place_order", "f2",
              Mapping([drug_name |-> PyStr(Tums), quantity |-> PyStr(Two),
                       customer_name |-> PyStr(Al)])),
     DRequest("bogus", "f1", Mapping(<<>>))}

\* place_order for customer "Al", its fields well-shaped.
Order(drug_name, quantity) ==
    DRequest("place_order", "f1",
             Mapping([drug_name |-> PyStr(drug_name), quantity |-> PyInt(quantity),
                      customer_name |-> PyStr(Al)]))

\* The requests sent where only the dispatch is followed, by the module that
\* is imported: names in the table, not in it, and absent; inputs that are
\* well-shaped, lack a field, have one too many, have a field of a wrong type,
\* or are no JSON object. Quantities are positive, zero and negative.
SkillRequests(module) ==
    IF module = "pharmacy_functions"
    THEN Requests \cup
         {Order(Tums, 60), Order(Tums, -5), Order(Tums, 0), Order(TumsTyped, 30),
          Order(Asp, 30), Order(Zinc, 30), Order(Lisinopril, 5),
          DRequest("place_order", "f1", Mapping([drug_name |-> PyStr(Tums)])),
          DRequest("place_order", "f1",
                   Mapping([drug_name |-> PyStr(Tums), quantity |-> PyInt(30),
                            customer_name |-> PyStr(Al), extra |-> PyNone])),
          DRequest("get_drug_info", "f1", Mapping([drug_name |-> PyInt(7)])),
          DRequest("get_drug_info", "f1", NotAMapping),
          DRequest("check_order_status", "f1",
                   Mapping([order_id |-> PyStr(<<65, 49, 66, 50, 67, 51>>)])),
          DRequest("check_order_status", "f1",
                   Mapping([order_id |-> PyStr(<<32, 97, 49, 98, 50, 99, 51>>)])),
          DRequest(None, "f1", Mapping(<<>>))}
    ELSE {DRequest("get_available_slots", "f1", Mapping([date |-> PyStr(Two)])),
          DRequest("get_available_slots", "f1", Mapping([date |-> PyInt(7)])),
          DRequest("get_available_slots", "f1", Mapping(<<>>)),
          DRequest("book_appointment", "f1",
                   Mapping([customer_name |-> PyStr(Al), phone_number |-> PyStr(Two),
                            date |-> PyStr(Two), time |-> PyStr(Two),
                            visa_type |-> PyStr(Two)])),
          DRequest("book_appointment", "f1",
                   Mapping([customer_name |-> PyStr(Al), phone_number |-> PyStr(Two),
                            date |-> PyNone, time |-> PyStr(Two),
                            visa_type |-> PyStr(Two)])),
          DRequest("get_visa_info", "f1", Mapping([visa_type |-> PyInt(7)])),
          DRequest("check_appointment", "f1", Mapping(<<>>)),
          DRequest("check_appointment", "f1", Mapping([confirmation_code |-> PyInt(7)])),
          DRequest("cancel_appointment", "f1",
                   Mapping([confirmation_code |-> PyStr(Two), extra |-> PyNone])),
          DRequest("request_callback", "f1", NotAMapping),
          DRequest("get_drug_info", "f1", Mapping([drug_name |-> PyStr(Tums)])),
          DRequest(None, "f1", Mapping(<<>>))}

\* "12/23", a phone number, and " a1b2c3", the first of OrderIds as a caller
\* types it.
Dec23 == <<49, 50, 47, 50, 51>>
Phone == <<43, 49, 53, 53, 53, 48, 49, 48, 48>>
CodeTyped == <<32, 97, 49, 98, 50, 99, 51>>

\* book_appointment for customer "Al", a student visa, at "10:00 AM" on the
\* date given.
Book(date) ==
    DRequest("book_appointment", "f1",
             Mapping([customer_name |-> PyStr(Al), phone_number |-> PyStr(Phone),
                      date |-> PyStr(date), time |-> PyStr(<<49, 48, 58, 48, 48, 32, 65, 77>>),
                      visa_type |-> PyStr(Student)]))

\* The requests sent where the tables of the skills are followed, by the
\* module that is imported. pharmacy_functions: two orders of different
\* customers and drugs, and the status of the order with the first id.
\* appointment_functions: bookings on a Sunday by name, on a date that is a
\* Sunday or, a year later, a Monday, and on the next day; the cancellation
\* and the look-up of the appointment with the first code; and a callback.
HistoryRequests(module) ==
    IF module = "pharmacy_functions"
    THEN {Order(Tums, 30),
          DRequest("place_order", "f1",
                   Mapping([drug_name |-> PyStr(Asp), quantity |-> PyInt(20),
                            customer_name |-> PyStr(<<66, 111>>)])),
          DRequest("check_order_status", "f1", Mapping([order_id |-> PyStr(CodeTyped)]))}
    ELSE {Book(<<32, 83, 117, 110, 100, 97, 121>>), Book(Dec23), Book(Tomorrow),
          DRequest("cancel_appointment", "f1",
                   Mapping([confirmation_code |-> PyStr(CodeTyped)])),
          DRequest("check_appointment", "f1",
                   Mapping([confirmation_code |-> PyStr(SubSeq(CodeTyped, 2, 7))])),
          DRequest("request_callback", "f1",
                   Mapping([customer_name |-> PyStr(Al), phone_number |-> PyStr(Phone)]))}

\* What the agent peer may send.
AgentFrames ==
    {DText("badjson"), DText("Welcome"), DText("ConversationText"),
     DText("AgentThinking"), DText("Error")}
        \cup {DAudio(b) : b \in SampleAudio}
        \cup Requests

\* The audio frames among them.
AgentAudioFrames == {DAudio(<<1, 2, 3, 255>>)}

\* ------------------------------------------------------------------- state

VARIABLES
    hpc,        \* hpc[s]: where handle_twilio_connection of session s stands
    tpc,        \* tpc[s]: twilio_to_deepgram: "idle", "run" or "done"
    dpc,        \* dpc[s]: deepgram_to_twilio: "idle", "run" or "done"
    stream_sid, \* stream_sid[s]: the local stream_sid of the handler
    tw,         \* tw[s]: the telephony connection: "open" or "closed" ("none":
                \*        no connection has arrived)
    dg,         \* dg[s]: the agent connection: "none", "open", "peer_closed"
                \*        (the agent closed it) or "closed" (the bridge did)
    tq,         \* tq[s]: frames the telephony peer sent, not yet read
    dq,         \* dq[s]: frames the agent sent, not yet read
    t_recv,     \* t_recv[s]: the frames twilio_to_deepgram has read, in order
    d_recv,     \* d_recv[s]: the frames deepgram_to_twilio has read, in order
    dg_sent,    \* dg_sent[s]: what the bridge has sent to the agent, in order
    tw_sent,    \* tw_sent[s]: what the bridge has sent to telephony, in order
    audio_only, \* whether the peers send only the frames of the audio path
    busy,       \* the session whose coroutine is inside a call that does not
                \* await (it holds the event loop), or 0
    skills,     \* the module main.py imports execute_function from
    INVENTORY,  \* INVENTORY[drug]: the stock of pharmacy_functions.INVENTORY
    ORDERS,     \* pharmacy_functions.ORDERS: order id -> order
    APPOINTMENTS,       \* appointment_functions.APPOINTMENTS, in dict order
    CALLBACK_REQUESTS,  \* appointment_functions.CALLBACK_REQUESTS
    now,        \* the day datetime.now() last fell on
    call,       \* call[s]: how far the skill that session s called has come
    result      \* result[s]: what execute_function last returned in session s

\* What only a dispatch changes: the state of the skills, shared by all
\* sessions of the process, and the locals of the dispatching loops.
skill_vars == <<INVENTORY, ORDERS, APPOINTMENTS, CALLBACK_REQUESTS, now, call, result>>

vars == <<hpc, tpc, dpc, stream_sid, tw, dg, tq, dq, t_recv, d_recv, dg_sent, tw_sent,
          audio_only, skills, busy, skill_vars>>

\* The days the datetime.now() of a call may fall on, after one that fell on
\* the day "since": book_appointment, which reads the clock in parse_date,
\* finds that day or a later one.
Clock(module, function_name, called, since) ==
    IF ToRun(module, function_name, called) /\ function_name = "book_appointment"
    THEN {d \in FirstDay..(FirstDay + 6) : d >= since}
    ELSE {since}

\* Coroutines that run at any time, as threads would.
LoopFreeAlways == TRUE

\* asyncio runs every coroutine of the process on one thread: a coroutine runs
\* only while no other one is between two awaits.
LoopFree == busy = 0

\* The request paths a connection may come in on.
Paths == {"/twilio", "/", "/other"}

\* Frames the peers have sent so far, over all sessions.
RECURSIVE SumOver(_, _)
SumOver(f, S) ==
    IF S = {} THEN 0
    ELSE LET x == CHOOSE y \in S : TRUE IN f[x] + SumOver(f, S \ {x})

Arrived ==
    SumOver([s \in Sessions |->
                Len(t_recv[s]) + Len(tq[s]) + Len(d_recv[s]) + Len(dq[s])],
            Sessions)

\* ---------------------------------------------------- history of a session

\* Whether a frame with this event (kind) is among the first n frames read.
TSeen(s, event, n) == \E i \in 1..n : t_recv[s][i].msg.json /\ t_recv[s][i].msg.event = event
DSeen(s, kind) == \E i \in 1..Len(d_recv[s]) : d_recv[s][i].msg.kind = kind

\* The streamSid of the last Start envelope among the first n frames read.
LastStartSid(s, n) ==
    IF TSeen(s, "start", n)
    THEN LET i == CHOOSE j \in 1..n :
                    /\ t_recv[s][j].msg.json /\ t_recv[s][j].msg.event = "start"
                    /\ \A k \in (j + 1)..n :
                          ~(t_recv[s][k].msg.json /\ t_recv[s][k].msg.event = "start")
         IN  t_recv[s][i].msg.streamSid
    ELSE None

\* The lifecycle phase of session s, read off the handler's state.
Phase(s) ==
    IF hpc[s] \in {"off", "accept", "config"} THEN "Connecting"
    ELSE IF hpc[s] = "done" THEN "Closed"
    ELSE IF \/ TSeen(s, "stop", Len(t_recv[s]))
            \/ tw[s] # "open" \/ dg[s] # "open"
            \/ tpc[s] = "done" \/ dpc[s] = "done" THEN "Closing"
    ELSE IF TSeen(s, "start", Len(t_recv[s])) \/ DSeen(s, "Welcome") THEN "Active"
    ELSE "ConfigSent"

\* -------------------------------------------------------------------- Init

\* The skills when the modules have been loaded, and no call under way.
NoResult == [raised |-> FALSE, text |-> Text("", <<>>)]

InitSkills ==
    /\ INVENTORY = InitialStock
    /\ ORDERS = <<>>
    /\ APPOINTMENTS = <<>>
    /\ CALLBACK_REQUESTS = <<>>
    /\ now = FirstDay
    /\ call = [s \in Sessions |-> NoCall]
    /\ result = [s \in Sessions |-> NoResult]

\* The state once the server has accepted the connections of the calls in C;
\* no connection of the other sessions ever arrives ("off").
InitCalls(C) ==
    /\ audio_only = (Cardinality(C) > 1)
    /\ hpc = [s \in Sessions |-> IF s \in C THEN "accept" ELSE "off"]
    /\ tpc = [s \in Sessions |-> "idle"]
    /\ dpc = [s \in Sessions |-> "idle"]
    /\ stream_sid = [s \in Sessions |-> None]
    /\ tw = [s \in Sessions |-> IF s \in C THEN "open" ELSE "none"]
    /\ dg = [s \in Sessions |-> "none"]
    /\ tq = [s \in Sessions |-> <<>>]
    /\ dq = [s \in Sessions |-> <<>>]
    /\ t_recv = [s \in Sessions |-> <<>>]
    /\ d_recv = [s \in Sessions |-> <<>>]
    /\ dg_sent = [s \in Sessions |-> <<>>]
    /\ tw_sent = [s \in Sessions |-> <<>>]
    /\ busy = 0
    /\ skills = "pharmacy_functions"
    /\ InitSkills

\* One call, whose peers send every kind of frame.
Init == InitCalls({1})

\* Two concurrent calls, whose peers send the frames of the audio path.
InitTwo == InitCalls(Sessions)

\* ------------------------------------------------------------------- peers

\* The telephony peer sends a frame.
TwilioSend(s) ==
    /\ LoopFree
    /\ hpc[s] # "off"
    /\ tw[s] = "open"
    /\ Arrived < MaxFrames
    /\ Len(tq[s]) < MaxQueue
    /\ \E m \in (IF audio_only THEN TwilioAudioFrames(s) ELSE TwilioFrames(s)) : tq' = [tq EXCEPT ![s] = Append(@, m)]
    /\ UNCHANGED <<hpc, tpc, dpc, stream_sid, tw, dg, dq, t_recv, d_recv, dg_sent, tw_sent, audio_only, skills, busy, skill_vars>>

\* The telephony peer hangs up.
TwilioClose(s) ==
    /\ LoopFree
    /\ hpc[s] \notin {"off", "done"}
    /\ tw[s] = "open"
    /\ tw' = [tw EXCEPT ![s] = "closed"]
    /\ UNCHANGED <<hpc, tpc, dpc, stream_sid, dg, tq, dq, t_recv, d_recv, dg_sent, tw_sent, audio_only, skills, busy, skill_vars>>

\* The agent sends a frame.
AgentSend(s) ==
    /\ LoopFree
    /\ dg[s] = "open"
    /\ Arrived < MaxFrames
    /\ Len(dq[s]) < MaxQueue
    /\ \E f \in (IF audio_only THEN AgentAudioFrames ELSE AgentFrames) : dq' = [dq EXCEPT ![s] = Append(@, f)]
    /\ UNCHANGED <<hpc, tpc, dpc, stream_sid, tw, dg, tq, t_recv, d_recv, dg_sent, tw_sent, audio_only, skills, busy, skill_vars>>

\* The agent closes its connection.
AgentClose(s) ==
    /\ LoopFree
    /\ dg[s] = "open"
    /\ dg' = [dg EXCEPT ![s] = "peer_closed"]
    /\ UNCHANGED <<hpc, tpc, dpc, stream_sid, tw, tq, dq, t_recv, d_recv, dg_sent, tw_sent, audio_only, skills, busy, skill_vars>>

\* ------------------------------------------------------- what the bridge sends

\* A frame sent to the agent; src is the position, in the history of the
\* loop that sent it, of the frame it answers.
ToAgent(kind, bytes, callId, output, src) ==
    [kind |-> kind, bytes |-> bytes, function_call_id |-> callId,
     output |-> output, src |-> src]

\* deepgram_ws.send(audio_bytes), but sending the frame twice.
SendAudioTwice(sent, bytes, src) ==
    sent \o <<ToAgent("audio", bytes, None, <<>>, src),
              ToAgent("audio", bytes, None, <<>>, src)>>

\* deepgram_ws.send(audio_bytes) of twilio_to_deepgram.
SendAudio(sent, bytes, src) ==
    Append(sent, ToAgent("audio", bytes, None, <<>>, src))

\* The response to a request, but with no function_call_id echoed.
SendResponseNoId(sent, callId, output, src) ==
    Append(sent, ToAgent("FunctionCallResponse", <<>>, None, output, src))

\* deepgram_ws.send(json.dumps(response)) of deepgram_to_twilio.
SendResponse(sent, callId, output, src) ==
    Append(sent, ToAgent("FunctionCallResponse", <<>>, callId, output, src))

\* The Media envelope twilio_ws.send carries, and its place in the history.
SendMedia(sent, sid, audio, src) ==
    Append(sent, [event |-> "media", streamSid |-> sid,
                  payload |-> b64encode(audio), src |-> src])

\* stream_sid as one variable of the module instead of one per handler call.
SetSidGlobal(sids, s, sid) == [x \in Sessions |-> sid]

\* stream_sid = data.get('streamSid'): the local of handler call s.
SetSid(sids, s, sid) == [sids EXCEPT ![s] = sid]

\* A handler that logs the fault and goes on with the next frame.
AfterFaultContinue == "run"

\* Where a forwarding loop stands after "except Exception": the try encloses
\* the whole iteration, so the loop function has returned.
AfterFault == "done"

\* An Error event that ends the loop.
AfterAgentEventErrorEnds(kind) == IF kind = "Error" THEN "done" ELSE "run"

\* Where deepgram_to_twilio stands after a Welcome, ConversationText,
\* AgentThinking or Error event (or an event of no known type): it is logged
\* and the iteration goes on.
AfterAgentEvent(kind) == "run"

\* The 'stop' branch without its break.
TAfterStopContinue == "run"

\* Where twilio_to_deepgram stands after the 'stop' branch: break.
TAfterStop == "done"

\* ----------------------------------------------------------------- handler

\* router and connect_to_deepgram: an unknown path is closed; on a known path
\* the handler connects to the agent and gets a connection, or None (no key,
\* or connect raised), on which it returns. The server closes the telephony
\* connection of a handler that has returned.
Accept(s) ==
    /\ LoopFree
    /\ hpc[s] = "accept"
    /\ \E path \in Paths, connected \in BOOLEAN :
          IF (path = "/twilio" \/ path = "/") /\ connected
          THEN /\ dg' = [dg EXCEPT ![s] = "open"]
               /\ hpc' = [hpc EXCEPT ![s] = "config"]
               /\ tw' = tw
          ELSE /\ dg' = dg
               /\ hpc' = [hpc EXCEPT ![s] = "done"]
               /\ tw' = [tw EXCEPT ![s] = "closed"]
    /\ UNCHANGED <<tpc, dpc, stream_sid, tq, dq, t_recv, d_recv, dg_sent, tw_sent, audio_only, skills, busy, skill_vars>>

\* gather would start the loops even when the configuration was not sent.
LoopAfterSetupAlways(sent) == "run"

\* Where a forwarding loop stands once the set-up is over: gather starts it
\* when the configuration was sent; every other path has returned by then.
LoopAfterSetup(sent) == IF sent THEN "run" ELSE "idle"

\* gather returning as soon as one of the two loops has returned.
GatherReturnedFirst(t, d) == t = "done" \/ d = "done"

\* await asyncio.gather(t, d): it returns once both loops have returned.
GatherReturned(t, d) == t = "done" /\ d = "done"

\* Load config.json and send it; then gather starts the two loops. A missing
\* or invalid file returns; a send on a connection the agent has closed raises
\* out of the handler. Neither path closes the agent connection.
Config(s) ==
    /\ LoopFree
    /\ hpc[s] = "config"
    /\ \E loaded \in {"ok", "FileNotFoundError", "JSONDecodeError"} :
          IF loaded = "ok" /\ dg[s] = "open"
          THEN /\ dg_sent' = [dg_sent EXCEPT ![s] =
                                 Append(@, ToAgent("config", <<>>, None, <<>>, 0))]
               /\ hpc' = [hpc EXCEPT ![s] = "gather"]
               /\ tpc' = [tpc EXCEPT ![s] = LoopAfterSetup(TRUE)]
               /\ dpc' = [dpc EXCEPT ![s] = LoopAfterSetup(TRUE)]
               /\ tw' = tw
          ELSE /\ hpc' = [hpc EXCEPT ![s] = "done"]
               /\ tpc' = [tpc EXCEPT ![s] = LoopAfterSetup(FALSE)]
               /\ dpc' = [dpc EXCEPT ![s] = LoopAfterSetup(FALSE)]
               /\ tw' = [tw EXCEPT ![s] = "closed"]
               /\ UNCHANGED dg_sent
    /\ UNCHANGED <<stream_sid, dg, tq, dq, t_recv, d_recv, tw_sent, audio_only, skills, busy, skill_vars>>

\* gather has returned: finally closes the agent connection, the handler
\* returns and the server closes the telephony connection.
Finish(s) ==
    /\ LoopFree
    /\ hpc[s] = "gather"
    /\ GatherReturned(tpc[s], dpc[s])
    /\ dg' = [dg EXCEPT ![s] = "closed"]
    /\ tw' = [tw EXCEPT ![s] = "closed"]
    /\ hpc' = [hpc EXCEPT ![s] = "done"]
    /\ UNCHANGED <<tpc, dpc, stream_sid, tq, dq, t_recv, d_recv, dg_sent, tw_sent, audio_only, skills, busy, skill_vars>>

\* ------------------------------------------------------ twilio_to_deepgram

\* One iteration of the loop on the frame at the head of the queue.
TwilioToDeepgramFrame(s) ==
    /\ LoopFree
    /\ tpc[s] = "run"
    /\ tq[s] # <<>>
    /\ LET m == Head(tq[s])
           n == Len(t_recv[s]) + 1
       IN  /\ tq' = [tq EXCEPT ![s] = Tail(@)]
           /\ t_recv' = [t_recv EXCEPT ![s] = Append(@, [msg |-> m, phase |-> Phase(s)])]
           /\ IF TDecodeError(m) THEN
                  \* json.loads, data['media']['payload'] or b64decode raises:
                  \* except Exception, and the loop is over
                  /\ tpc' = [tpc EXCEPT ![s] = AfterFault]
                  /\ UNCHANGED <<stream_sid, dg_sent>>
              ELSE IF m.event = "start" THEN
                  /\ stream_sid' = SetSid(stream_sid, s, m.streamSid)
                  /\ UNCHANGED <<tpc, dg_sent>>
              ELSE IF m.event = "media" THEN
                  IF dg[s] = "open"
                  THEN /\ dg_sent' = [dg_sent EXCEPT ![s] =
                                         SendAudio(@, b64decode(m.payload).bytes, n)]
                       /\ UNCHANGED <<tpc, stream_sid>>
                  ELSE \* send raises ConnectionClosed
                       /\ tpc' = [tpc EXCEPT ![s] = "done"]
                       /\ UNCHANGED <<stream_sid, dg_sent>>
              ELSE IF m.event = "stop" THEN
                  /\ tpc' = [tpc EXCEPT ![s] = TAfterStop]
                  /\ UNCHANGED <<stream_sid, dg_sent>>
              ELSE UNCHANGED <<tpc, stream_sid, dg_sent>>
    /\ UNCHANGED <<hpc, dpc, tw, dg, dq, d_recv, tw_sent, audio_only, skills, busy, skill_vars>>

\* The telephony connection is closed and nothing is left to read: the
\* iteration ends (or raises ConnectionClosed, which is caught).
TwilioToDeepgramClosed(s) ==
    /\ LoopFree
    /\ tpc[s] = "run"
    /\ tq[s] = <<>>
    /\ tw[s] = "closed"
    /\ tpc' = [tpc EXCEPT ![s] = "done"]
    /\ UNCHANGED <<hpc, dpc, stream_sid, tw, dg, tq, dq, t_recv, d_recv, dg_sent, tw_sent, audio_only, skills, busy, skill_vars>>

\* ------------------------------------------------------ deepgram_to_twilio

\* One iteration of the loop on the frame at the head of the queue. A
\* FunctionCallRequest takes two steps: execute_function is called without an
\* await, so from the call to its return the coroutine holds the event loop
\* (dpc[s] = "dispatch") and the second step is the only one the process
\* takes. The first step runs the skill up to the stock check of place_order,
\* the second stores the order, returns and sends the response.
DeepgramToTwilioFrame(s) ==
    /\ dq[s] # <<>>
    /\ LET f == Head(dq[s])
           n == Len(d_recv[s]) + 1
           read == /\ dq' = [dq EXCEPT ![s] = Tail(@)]
                   /\ d_recv' = [d_recv EXCEPT ![s] =
                                    Append(@, [msg |-> f, tseen |-> Len(t_recv[s]),
                                               twOpen |-> tw[s] = "open",
                                               dgOpen |-> dg[s] = "open"])]
       IN  IF dpc[s] = "dispatch" THEN
               \E order_id \in OrderIds, today \in Clock(skills, f.function_name, call[s], now) :
                  LET c == call[s]
                      same == [INVENTORY |-> INVENTORY, ORDERS |-> ORDERS,
                               APPOINTMENTS |-> APPOINTMENTS,
                               CALLBACK_REQUESTS |-> CALLBACK_REQUESTS]
                      done == IF c.pass
                              THEN LET p == place_order_commit(f.input.kw, c.drug_key,
                                                               order_id, INVENTORY, ORDERS)
                                   IN  [same EXCEPT !.INVENTORY = p.INVENTORY,
                                                    !.ORDERS = p.ORDERS] @@ [out |-> p.out]
                              ELSE IF ToRun(skills, f.function_name, c)
                              THEN appointment_call(f.function_name, f.input.kw, order_id,
                                                    today, APPOINTMENTS, CALLBACK_REQUESTS)
                                       @@ same
                              ELSE same @@ [out |-> c.out]
                  IN  /\ result' = [result EXCEPT ![s] =
                                        execute_function(skills, f.function_name,
                                                         [c EXCEPT !.out = done.out])]
                      /\ INVENTORY' = done.INVENTORY
                      /\ ORDERS' = done.ORDERS
                      /\ APPOINTMENTS' = done.APPOINTMENTS
                      /\ CALLBACK_REQUESTS' = done.CALLBACK_REQUESTS
                      /\ now' = today
                      /\ call' = [call EXCEPT ![s] = NoCall]
                      /\ busy' = 0
                      /\ read
                      /\ IF ~result'[s].raised /\ dg[s] = "open"
                         THEN /\ dg_sent' = [dg_sent EXCEPT ![s] =
                                                SendResponse(@, f.function_call_id,
                                                             result'[s].text, n)]
                              /\ dpc' = [dpc EXCEPT ![s] = "run"]
                              /\ UNCHANGED tw_sent
                         ELSE \* execute_function or the send raises
                              /\ dpc' = [dpc EXCEPT ![s] = AfterFault]
                              /\ UNCHANGED <<tw_sent, dg_sent>>
           ELSE
               /\ dpc[s] = "run"
               /\ LoopFree
               /\ IF f.kind = "FunctionCallRequest" THEN
                      \* result = execute_function(function_name, parameters)
                      /\ dpc' = [dpc EXCEPT ![s] = "dispatch"]
                      /\ busy' = s
                      /\ call' = [call EXCEPT ![s] =
                                     call_check(skills, f.function_name, f.input,
                                                INVENTORY, ORDERS)]
                      /\ UNCHANGED <<dq, d_recv, tw_sent, dg_sent, INVENTORY, ORDERS, APPOINTMENTS,
                                     CALLBACK_REQUESTS, now, result>>
                  ELSE
                      /\ read
                      /\ UNCHANGED <<busy, skill_vars>>
                      /\ IF f.kind = "binary" THEN
                             IF tw[s] = "open"
                             THEN /\ tw_sent' = [tw_sent EXCEPT ![s] =
                                                    SendMedia(@, stream_sid[s], f.audio, n)]
                                  /\ UNCHANGED <<dpc, dg_sent>>
                             ELSE \* send raises ConnectionClosed
                                  /\ dpc' = [dpc EXCEPT ![s] = "done"]
                                  /\ UNCHANGED <<tw_sent, dg_sent>>
                         ELSE IF f.kind = "badjson" THEN
                             /\ dpc' = [dpc EXCEPT ![s] = AfterFault]
                             /\ UNCHANGED <<tw_sent, dg_sent>>
                         ELSE /\ dpc' = [dpc EXCEPT ![s] = AfterAgentEvent(f.kind)]
                              /\ UNCHANGED <<tw_sent, dg_sent>>
    /\ UNCHANGED <<hpc, tpc, stream_sid, tw, dg, tq, t_recv, audio_only, skills>>

\* The agent connection is closed and nothing is left to read.
DeepgramToTwilioClosed(s) ==
    /\ LoopFree
    /\ dpc[s] = "run"
    /\ dq[s] = <<>>
    /\ dg[s] = "peer_closed"
    /\ dpc' = [dpc EXCEPT ![s] = "done"]
    /\ UNCHANGED <<hpc, tpc, stream_sid, tw, dg, tq, dq, t_recv, d_recv, dg_sent, tw_sent, audio_only, skills, busy, skill_vars>>

\* ----------------------------------------------------------- specification

\* What the bridge itself does in session s.
BridgeStep(s) ==
    \/ Accept(s)
    \/ Config(s)
    \/ TwilioToDeepgramFrame(s)
    \/ TwilioToDeepgramClosed(s)
    \/ DeepgramToTwilioFrame(s)
    \/ DeepgramToTwilioClosed(s)
    \/ Finish(s)

\* What the two peers of session s do.
PeerStep(s) ==
    \/ TwilioSend(s)
    \/ TwilioClose(s)
    \/ AgentSend(s)
    \/ AgentClose(s)

Next == \E s \in Sessions : BridgeStep(s) \/ PeerStep(s)

Spec == Init /\ [][Next]_vars

SpecTwo == InitTwo /\ [][Next]_vars

\* ------------------------------------------------- the dispatch on its own

\* Two sessions whose set-up is over: the configuration is sent and gather
\* runs the loops. The module imported is either of the two.
InitDispatch ==
    /\ audio_only = FALSE
    /\ hpc = [s \in Sessions |-> "gather"]
    /\ tpc = [s \in Sessions |-> LoopAfterSetup(TRUE)]
    /\ dpc = [s \in Sessions |-> LoopAfterSetup(TRUE)]
    /\ stream_sid = [s \in Sessions |-> None]
    /\ tw = [s \in Sessions |-> "open"]
    /\ dg = [s \in Sessions |-> "open"]
    /\ tq = [s \in Sessions |-> <<>>]
    /\ dq = [s \in Sessions |-> <<>>]
    /\ t_recv = [s \in Sessions |-> <<>>]
    /\ d_recv = [s \in Sessions |-> <<>>]
    /\ dg_sent = [s \in Sessions |-> <<ToAgent("config", <<>>, None, <<>>, 0)>>]
    /\ tw_sent = [s \in Sessions |-> <<>>]
    /\ busy = 0
    /\ skills \in Modules
    /\ InitSkills

\* The agent sends a FunctionCallRequest.
AgentRequest(s) ==
    /\ LoopFree
    /\ dg[s] = "open"
    /\ Arrived < MaxCalls
    /\ Len(dq[s]) < MaxQueue
    /\ \E f \in SkillRequests(skills) : dq' = [dq EXCEPT ![s] = Append(@, f)]
    /\ UNCHANGED <<hpc, tpc, dpc, stream_sid, tw, dg, tq, t_recv, d_recv, dg_sent, tw_sent, audio_only, skills, busy, skill_vars>>

NextDispatch == \E s \in Sessions : AgentRequest(s) \/ DeepgramToTwilioFrame(s)

\* The agent->telephony loops of two sessions, reading requests only.
SpecSkills == InitDispatch /\ [][NextDispatch]_vars

\* --------------------------------------------- the tables of the skills

\* One session whose set-up is over, the other never arriving. The module
\* imported is either of the two.
InitHistory ==
    /\ audio_only = FALSE
    /\ hpc = [s \in Sessions |-> IF s = 1 THEN "gather" ELSE "off"]
    /\ tpc = [s \in Sessions |-> IF s = 1 THEN LoopAfterSetup(TRUE) ELSE "idle"]
    /\ dpc = [s \in Sessions |-> IF s = 1 THEN LoopAfterSetup(TRUE) ELSE "idle"]
    /\ stream_sid = [s \in Sessions |-> None]
    /\ tw = [s \in Sessions |-> IF s = 1 THEN "open" ELSE "none"]
    /\ dg = [s \in Sessions |-> IF s = 1 THEN "open" ELSE "none"]
    /\ tq = [s \in Sessions |-> <<>>]
    /\ dq = [s \in Sessions |-> <<>>]
    /\ t_recv = [s \in Sessions |-> <<>>]
    /\ d_recv = [s \in Sessions |-> <<>>]
    /\ dg_sent = [s \in Sessions |->
                     IF s = 1 THEN <<ToAgent("config", <<>>, None, <<>>, 0)>> ELSE <<>>]
    /\ tw_sent = [s \in Sessions |-> <<>>]
    /\ busy = 0
    /\ skills \in Modules
    /\ InitSkills

\* The agent sends a request of those that the tables are followed with.
AgentFollowUp(s) ==
    /\ LoopFree
    /\ dg[s] = "open"
    /\ Arrived < MaxHistory
    /\ Len(dq[s]) < MaxQueue
    /\ \E f \in HistoryRequests(skills) : dq' = [dq EXCEPT ![s] = Append(@, f)]
    /\ UNCHANGED <<hpc, tpc, dpc, stream_sid, tw, dg, tq, t_recv, d_recv, dg_sent, tw_sent, audio_only, skills, busy, skill_vars>>

NextHistory == \E s \in Sessions : AgentFollowUp(s) \/ DeepgramToTwilioFrame(s)

\* The agent->telephony loop of a session, whose requests place orders and
\* ask for them, or book appointments, cancel them and ask for them.
SpecHistory == InitHistory /\ [][NextHistory]_vars

\* ------------------------------------------------- the audio there and back

\* The byte values and the audio frames of at most MaxLen bytes built of them.
Bytes == {0, 165, 255}
ByteSeqs == UNION {[1..n -> Bytes] : n \in 0..MaxLen}

\* The agent sends the first frame of a session, an audio frame.
AgentAudio(s) ==
    /\ LoopFree
    /\ dg[s] = "open"
    /\ d_recv[s] = <<>> /\ dq[s] = <<>>
    /\ \E b \in ByteSeqs \cup SampleAudio : dq' = [dq EXCEPT ![s] = Append(@, DAudio(b))]
    /\ UNCHANGED <<hpc, tpc, dpc, stream_sid, tw, dg, tq, t_recv, d_recv, dg_sent, tw_sent, audio_only, skills, busy, skill_vars>>

\* The telephony peer sends back the payload of a Media envelope it was sent,
\* in a Media envelope of its own.
TwilioEcho(s) ==
    /\ LoopFree
    /\ tw[s] = "open"
    /\ t_recv[s] = <<>> /\ tq[s] = <<>>
    /\ \E k \in 1..Len(tw_sent[s]) :
          tq' = [tq EXCEPT ![s] = Append(@, TMedia(tw_sent[s][k].payload))]
    /\ UNCHANGED <<hpc, tpc, dpc, stream_sid, tw, dg, dq, t_recv, d_recv, dg_sent, tw_sent, audio_only, skills, busy, skill_vars>>

NextLoopback ==
    \E s \in Sessions :
        \/ AgentAudio(s)
        \/ DeepgramToTwilioFrame(s)
        \/ TwilioEcho(s)
        \/ TwilioToDeepgramFrame(s)

\* Two sessions whose telephony peer sends the agent's audio back.
SpecLoopback == InitDispatch /\ [][NextLoopback]_vars

\* ------------------------------------------------------------------ claims

\* Positions in a history.
Idx(q) == 1..Len(q)

\* The positions in dg_sent[s] of the frames of one kind sent for the frame
\* at position i of the sending loop's history.
SentFor(s, kind, i) ==
    {k \in Idx(dg_sent[s]) : dg_sent[s][k].kind = kind /\ dg_sent[s][k].src = i}

\* The positions in tw_sent[s] of the envelopes sent for agent frame i.
EmittedFor(s, i) == {k \in Idx(tw_sent[s]) : tw_sent[s][k].src = i}

IsRequest(s, i) == d_recv[s][i].msg.kind = "FunctionCallRequest"

\* The texts the dispatcher returns for the requests of Requests: the text of
\* a skill that ran, of the except clause, and for an unknown name.
DispatcherTexts ==
    {"{drug_key} is ${price} and we have {stock} units ...",
     "Error executing {function_name}: {str(e)}",
     "Unknown function: {function_name}"}

\* C1 as stated: every FunctionCallRequest the agent->telephony loop has read
\* has exactly one FunctionCallResponse with its function_call_id among the
\* frames sent to the agent, in every state, so also when the session closes.
C1_EveryRequestAnswered ==
    \A s \in Sessions : \A i \in Idx(d_recv[s]) :
        IsRequest(s, i) =>
            /\ Cardinality(SentFor(s, "FunctionCallResponse", i)) = 1
            /\ \A k \in SentFor(s, "FunctionCallResponse", i) :
                  dg_sent[s][k].function_call_id = d_recv[s][i].msg.function_call_id

\* C1 as amended: a FunctionCallRequest (its function_name a string or
\* absent) read while the agent link is open has
\* exactly one FunctionCallResponse, with its function_call_id and the text of
\* the dispatcher, whether the skill succeeds, is unknown or raises; a request
\* read after the agent closed the link has none; and every response sent
\* answers a request that was read, in the order of the requests.
C1_RequestAnsweredWhileLinkOpen ==
    \A s \in Sessions :
        /\ \A i \in Idx(d_recv[s]) :
              IsRequest(s, i) =>
                  IF d_recv[s][i].dgOpen
                  THEN /\ Cardinality(SentFor(s, "FunctionCallResponse", i)) = 1
                       /\ \A k \in SentFor(s, "FunctionCallResponse", i) :
                             /\ dg_sent[s][k].function_call_id =
                                    d_recv[s][i].msg.function_call_id
                             /\ dg_sent[s][k].output.template \in DispatcherTexts
                  ELSE SentFor(s, "FunctionCallResponse", i) = {}
        /\ \A k \in Idx(dg_sent[s]) :
              dg_sent[s][k].kind = "FunctionCallResponse" =>
                  /\ dg_sent[s][k].src \in Idx(d_recv[s])
                  /\ IsRequest(s, dg_sent[s][k].src)
        /\ \A k1, k2 \in Idx(dg_sent[s]) :
              /\ dg_sent[s][k1].kind = "FunctionCallResponse"
              /\ dg_sent[s][k2].kind = "FunctionCallResponse"
              /\ k1 < k2
              => dg_sent[s][k1].src < dg_sent[s][k2].src

\* Three requests were answered: a skill that ran, a skill that raised and an
\* unknown name.
C1_Witness ==
    \E s \in Sessions :
        \A text \in DispatcherTexts :
            \E k \in Idx(dg_sent[s]) :
                /\ dg_sent[s][k].kind = "FunctionCallResponse"
                /\ dg_sent[s][k].output.template = text

C3_MediaBeforeStartDropped ==
    [][\A s \in Sessions :
          /\ tpc[s] = "run" /\ tq[s] # <<>>
          /\ tw[s] = "open" /\ dg[s] = "open"
          /\ ValidMedia(Head(tq[s]))
          /\ ~TSeen(s, "start", Len(t_recv[s]))
          /\ t_recv'[s] # t_recv[s]
          => /\ dg_sent'[s] = dg_sent[s]
             /\ stream_sid'[s] = stream_sid[s]
             /\ Phase(s)' = Phase(s)]_vars

\* C4: a Stop envelope is the last frame the telephony->agent loop reads, and
\* no audio sent to the agent comes from a frame after it.
C4_NothingForwardedAfterStop ==
    \A s \in Sessions : \A i \in Idx(t_recv[s]) :
        t_recv[s][i].msg.json /\ t_recv[s][i].msg.event = "stop" =>
            /\ i = Len(t_recv[s])
            /\ \A k \in Idx(dg_sent[s]) :
                  dg_sent[s][k].kind = "audio" => dg_sent[s][k].src < i

\* Stop was processed, a valid Media envelope has arrived after it, and the
\* agent link is still open.
C4_Witness ==
    \E s \in Sessions :
        /\ TSeen(s, "stop", Len(t_recv[s]))
        /\ tq[s] # <<>> /\ ValidMedia(Head(tq[s]))
        /\ dg[s] = "open" /\ hpc[s] = "gather"

\* C5: no Media envelope sent to the telephony link carries an absent
\* streamSid.
C5_NoEnvelopeWithoutStreamSid ==
    \A s \in Sessions : \A k \in Idx(tw_sent[s]) : tw_sent[s][k].streamSid # None

IsAudioFrame(s, i) == d_recv[s][i].msg.kind = "binary"

C7_DecodeErrorSkipsFrame ==
    \A s \in Sessions :
        /\ t_recv[s] # <<>>
        /\ TDecodeError(t_recv[s][Len(t_recv[s])].msg)
        => tpc[s] = "run"

\* C8: once Stop is processed the session closes without the agent peer: in
\* every state after Stop the session is Closed or the bridge has a step to
\* take on its own.
C8_StopLeadsToClosed ==
    \A s \in Sessions :
        TSeen(s, "stop", Len(t_recv[s])) =>
            Phase(s) = "Closed" \/ ENABLED BridgeStep(s)

\* C9: once either link has closed the session closes without the other
\* peer: in every such state the session is Closed or the bridge has a step
\* to take on its own.
C9_LinkCloseLeadsToClosed ==
    \A s \in Sessions :
        hpc[s] = "gather" /\ (tw[s] = "closed" \/ dg[s] = "peer_closed") =>
            ENABLED BridgeStep(s)

\* C10: when the handler of a session that opened the agent link has
\* returned, the agent link and the telephony link are closed.
C10_LinksClosedOnReturn ==
    \A s \in Sessions :
        hpc[s] = "done" /\ dg[s] # "none" =>
            dg[s] # "open" /\ tw[s] = "closed"

\* The handler of session s has returned without the configuration sent: the
\* connection to the agent failed, or loading or sending config.json did.
SetupFailed(s) ==
    /\ hpc[s] = "done"
    /\ \A k \in Idx(dg_sent[s]) : dg_sent[s][k].kind # "config"

\* C11: when the set-up fails the session is Closed at once: as long as no
\* configuration was sent the session is Connecting or Closed, and once the
\* handler has returned neither loop was started, no frame was read or sent
\* on either link, and the telephony connection is closed.
C11_SetupFailureClosesAtOnce ==
    \A s \in Sessions :
        /\ dg_sent[s] = <<>> => Phase(s) \in {"Connecting", "Closed"}
        /\ SetupFailed(s) =>
              /\ tpc[s] = "idle" /\ dpc[s] = "idle"
              /\ t_recv[s] = <<>> /\ d_recv[s] = <<>>
              /\ dg_sent[s] = <<>> /\ tw_sent[s] = <<>>
              /\ tw[s] = "closed"

\* The agent was connected, the configuration failed, and a valid Media
\* envelope that had arrived is still unread.
C11_Witness ==
    \E s \in Sessions :
        /\ SetupFailed(s) /\ dg[s] = "open"
        /\ tq[s] # <<>> /\ ValidMedia(Head(tq[s]))

\* C12: while the agent->telephony loop is inside a dispatch, a valid Media
\* envelope that waits on the telephony link can be read and forwarded: the
\* step of the telephony->agent loop is enabled.
C12_MediaForwardedDuringDispatch ==
    \A s \in Sessions :
        /\ dpc[s] = "dispatch" /\ tpc[s] = "run"
        /\ tw[s] = "open" /\ dg[s] = "open"
        /\ tq[s] # <<>> /\ ValidMedia(Head(tq[s]))
        => ENABLED TwilioToDeepgramFrame(s)

\* A frame whose handling raised inside a loop was read by it.
FaultT(s) == \E i \in Idx(t_recv[s]) : IsDecodeError(t_recv[s][i].msg)
FaultD(s) == \E i \in Idx(d_recv[s]) : d_recv[s][i].msg.kind = "badjson"

\* C15: a fault inside a forwarding loop ends that loop and nothing else: the
\* loop has returned, the handler still waits in gather until both loops have
\* returned, then its teardown step is enabled, and when the handler has
\* returned the teardown has been done (both links closed by the bridge).
C15_FaultEndsLoopNotHandler ==
    \A s \in Sessions :
        /\ FaultT(s) => tpc[s] = "done"
        /\ FaultD(s) => dpc[s] = "done"
        /\ FaultT(s) \/ FaultD(s) =>
              /\ hpc[s] \in {"gather", "done"}
              /\ hpc[s] = "gather" /\ tpc[s] = "done" /\ dpc[s] = "done"
                    => ENABLED Finish(s)
              /\ hpc[s] = "done" =>
                    /\ tpc[s] = "done" /\ dpc[s] = "done"
                    /\ dg[s] = "closed" /\ tw[s] = "closed"

\* Each loop read a frame that raised, and the session has closed.
C15_Witness ==
    \E s \in Sessions : FaultT(s) /\ FaultD(s) /\ hpc[s] = "done"

\* C16: the bridge closes the agent link, and the handler returns, only when
\* both loops have returned; after a Stop envelope the agent link stays open
\* as long as the agent->telephony loop runs.
C16_ClosedOnlyAfterBothLoops ==
    \A s \in Sessions :
        /\ dg[s] = "closed" => tpc[s] = "done" /\ dpc[s] = "done"
        /\ hpc[s] = "done" => tpc[s] \in {"idle", "done"} /\ dpc[s] \in {"idle", "done"}
        /\ TSeen(s, "stop", Len(t_recv[s])) /\ dpc[s] # "done" =>
              dg[s] # "closed" /\ hpc[s] = "gather"

\* Stop was processed, the agent->telephony loop still runs, and the agent
\* link is open.
C16_Witness ==
    \E s \in Sessions :
        /\ TSeen(s, "stop", Len(t_recv[s])) /\ tpc[s] = "done"
        /\ dpc[s] = "run" /\ dg[s] = "open" /\ hpc[s] = "gather"

\* The events of the agent that the bridge only logs.
ControlEvents == {"Welcome", "ConversationText", "AgentThinking", "Error"}

C13_DispatcherNeverRaises ==
    \A s \in Sessions :
        /\ ~result[s].raised
        /\ dpc[s] \in {"run", "dispatch"}
        /\ \A i \in Idx(d_recv[s]) :
              /\ Cardinality(SentFor(s, "FunctionCallResponse", i)) = 1
              /\ \A k \in SentFor(s, "FunctionCallResponse", i) :
                    dg_sent[s][k].output.template # ""
        /\ d_recv[s] # <<>> => result[s].text.template # ""

\* One session was returned the text of the except clause for a skill that
\* raised inside, the other the text for a request without a function name.
C13_Witness ==
    \E s1, s2 \in Sessions :
        /\ result[s1].text.template = "Error executing {function_name}: {str(e)}"
        /\ result[s1].text.exc = "'...' object has no attribute 'lower'"
        /\ result[s2].text.template = "Unknown function: {function_name}"
        /\ result[s2].text.function_name = None

\* C14: the text returned for a call that does not bind or for a skill that
\* fails inside is a fixed message: no text returned carries the text of the
\* exception.
C14_FailureTextIsTemplated ==
    \A s \in Sessions : result[s].text.exc = ""

\* The quantity of the order that session s is placing.
OrderedBy(s) == Head(dq[s]).input.kw.quantity.n

\* C18: skill calls are serialized across sessions: at most one session is
\* inside a dispatch and it holds the event loop; the stock that place_order
\* checked is still there when it stores the order; so no unit is granted
\* twice and no stock falls below zero.
C18_SkillCallsSerialized ==
    /\ Cardinality({s \in Sessions : dpc[s] = "dispatch"}) <= 1
    /\ \A s \in Sessions :
          /\ dpc[s] = "dispatch" => busy = s
          /\ call[s].pass => INVENTORY[call[s].drug_key] >= OrderedBy(s)
    /\ \A k \in DrugKeys : INVENTORY[k] >= 0

\* Two sessions ordered the same units: one order was confirmed, the other
\* refused for want of stock.
C18_Witness ==
    \E s1, s2 \in Sessions :
        /\ result[s1].text.template =
              "Order confirmed! Order ID: {order_id}. {quantity} units of ..."
        /\ result[s2].text.template =
              "Sorry, we only have {stock} units of {drug_key} in stock. ..."
        /\ INVENTORY[Tums] = 0

\* C19: base64 round trip: every Media envelope sent to telephony decodes to
\* the audio of the agent frame it was made of, and the audio that comes back
\* to the agent when telephony returns the payload is that audio, unchanged;
\* decoding never fails.
C19_Base64RoundTrip ==
    \A s \in Sessions :
        /\ tpc[s] = "run" /\ dpc[s] = "run"
        /\ \A k \in Idx(tw_sent[s]) :
              b64decode(tw_sent[s][k].payload) =
                  [ok |-> TRUE, bytes |-> d_recv[s][tw_sent[s][k].src].msg.audio]
        /\ \A i \in Idx(t_recv[s]) :
              /\ Cardinality(SentFor(s, "audio", i)) = 1
              /\ \A j \in SentFor(s, "audio", i) :
                    \E k \in Idx(tw_sent[s]) :
                        /\ tw_sent[s][k].payload = t_recv[s][i].msg.payload
                        /\ dg_sent[s][j].bytes = d_recv[s][tw_sent[s][k].src].msg.audio

\* The empty audio frame came back in one session, a frame of two bytes (its
\* payload ends in '=') in the other.
C19_Witness ==
    \E s1, s2 \in Sessions :
        /\ \E j \in Idx(dg_sent[s1]) :
              dg_sent[s1][j].kind = "audio" /\ dg_sent[s1][j].bytes = <<>>
        /\ \E j \in Idx(dg_sent[s2]) :
              dg_sent[s2][j].kind = "audio" /\ dg_sent[s2][j].bytes = <<165, 255>>

\* C20: whatever orders are placed, the stock of every drug stays between 0
\* and its initial value.
C20_StockWithinBounds ==
    \A k \in DrugKeys : INVENTORY[k] >= 0 /\ INVENTORY[k] <= InitialStock[k]

\* The units of drug k in the orders that ORDERS records.
Recorded(k) ==
    SumOver([o \in DOMAIN ORDERS |-> ORDERS[o].quantity],
            {o \in DOMAIN ORDERS : ORDERS[o].drug_name = k})

\* C21: stock conservation: for every drug the initial stock is the stock
\* there is plus the quantities of the orders recorded for it.
C21_StockConservation ==
    \A k \in DrugKeys : InitialStock[k] = INVENTORY[k] + Recorded(k)

\* Session s is inside place_order, called with a text for the drug and an
\* integer for the quantity.
PlacesOrder(s) ==
    /\ skills = "pharmacy_functions"
    /\ dpc[s] = "dispatch"
    /\ Head(dq[s]).function_name = "place_order"
    /\ Head(dq[s]).input.mapping
    /\ Keys(Head(dq[s]).input.kw) = {"drug_name", "quantity", "customer_name"}
    /\ Head(dq[s]).input.kw.drug_name.type = "str"
    /\ Head(dq[s]).input.kw.quantity.type = "int"

\* The drug is not carried, needs a prescription, or there is less of it than
\* the order asks for.
Rejected(kw, inv) ==
    LET key == FindDrug(strip(lower(kw.drug_name.s)))
    IN  \/ key = <<>>
        \/ Catalog[key].requires_prescription
        \/ kw.quantity.n > inv[key]

\* C22: the step in which place_order returns for an order that is rejected
\* leaves the inventory and the order table as they were, and returns a
\* refusal.
C22_RejectedOrderChangesNothing ==
    [][\A s \in Sessions :
          /\ PlacesOrder(s)
          /\ Rejected(Head(dq[s]).input.kw, INVENTORY)
          /\ dpc'[s] # "dispatch"
          => /\ INVENTORY' = INVENTORY
             /\ ORDERS' = ORDERS
             /\ result'[s].text.template \in
                    {"Sorry, we don't carry {drug_name}. Cannot place order.",
                     "{drug_key} requires a prescription. ...",
                     "Sorry, we only have {stock} units of {drug_key} in stock. ..."}]_vars

\* An order is recorded, and the order of a session for more than the stock
\* left was refused.
C22_Witness ==
    /\ ORDERS # <<>>
    /\ \E s \in Sessions :
          /\ result[s].text.template =
                "Sorry, we only have {stock} units of {drug_key} in stock. ..."
          /\ d_recv[s] # <<>>
          /\ d_recv[s][Len(d_recv[s])].msg.input.kw.quantity.n
                > INVENTORY[Tums]

\* C23: no order that ORDERS records is for a drug that requires a
\* prescription, and the stock of every such drug is its initial stock.
C23_NoPrescriptionDrugOrdered ==
    /\ \A o \in DOMAIN ORDERS : ~Catalog[ORDERS[o].drug_name].requires_prescription
    /\ \A k \in DrugKeys :
          Catalog[k].requires_prescription => INVENTORY[k] = InitialStock[k]

\* An order for lisinopril, within its stock, was refused for want of a
\* prescription, after another order was recorded.
C23_Witness ==
    /\ ORDERS # <<>>
    /\ \E s \in Sessions :
          /\ result[s].text.template = "{drug_key} requires a prescription. ..."
          /\ result[s].text.parts = <<PyStr(Lisinopril)>>
          /\ d_recv[s][Len(d_recv[s])].msg.input.kw.quantity.n <= INVENTORY[Lisinopril]

\* Session s is inside the skill named, of the module named, called with
\* arguments that bind.
Inside(s, module, function_name) ==
    /\ skills = module
    /\ dpc[s] = "dispatch"
    /\ Head(dq[s]).function_name = function_name
    /\ bind(function_name, Head(dq[s]).input).type = ""

\* The response at position k of what session s sent to the agent confirms
\* an order.
Confirms(s, k) ==
    /\ dg_sent[s][k].kind = "FunctionCallResponse"
    /\ dg_sent[s][k].output.template =
          "Order confirmed! Order ID: {order_id}. {quantity} units of ..."

\* C24: the step in which check_order_status returns for the id of an order
\* that was confirmed before (the id typed in any letter case and with
\* blanks around it) reports the customer, the quantity and the drug of that
\* order.
C24_StatusReportsTheOrder ==
    [][\A s \in Sessions :
          /\ Inside(s, "pharmacy_functions", "check_order_status")
          /\ Head(dq[s]).input.kw.order_id.type = "str"
          /\ dpc'[s] # "dispatch"
          => \A s2 \in Sessions : \A k \in Idx(dg_sent[s2]) :
                /\ Confirms(s2, k)
                /\ dg_sent[s2][k].output.parts[1].s =
                      strip(upper(Head(dq[s]).input.kw.order_id.s))
                => /\ result'[s].text.template =
                         "Order {order_id} for {customer_name}: {quantity} units ..."
                   /\ result'[s].text.parts[2] = dg_sent[s2][k].output.parts[4]
                   /\ result'[s].text.parts[3] = dg_sent[s2][k].output.parts[2]
                   /\ result'[s].text.parts[4] = dg_sent[s2][k].output.parts[3]]_vars

\* The appointment with this code is in the table and cancelled.
IsCancelled(apts, code) ==
    \E i \in Idx(apts) : apts[i].code = code /\ apts[i].apt.status = Cancelled

\* C25: an appointment that is cancelled stays cancelled in every step: it
\* keeps its place and its status in the table; check_appointment with its
\* code reports the status cancelled; and cancel_appointment with its code
\* is accepted again and leaves it cancelled.
C25_CancelledStaysCancelled ==
    [][/\ \A i \in Idx(APPOINTMENTS) :
             APPOINTMENTS[i].apt.status = Cancelled
             => /\ i \in Idx(APPOINTMENTS')
                /\ APPOINTMENTS'[i].code = APPOINTMENTS[i].code
                /\ APPOINTMENTS'[i].apt.status = Cancelled
       /\ \A s \in Sessions :
             /\ Inside(s, "appointment_functions", "check_appointment")
             /\ dpc'[s] # "dispatch"
             /\ Get(Head(dq[s]).input.kw, "confirmation_code").type = "str"
             /\ IsCancelled(APPOINTMENTS,
                            upper(Get(Head(dq[s]).input.kw, "confirmation_code").s))
             => /\ result'[s].text.template =
                      "I found your appointment. {customer_name}, you have a ..."
                /\ result'[s].text.parts[4] = PyStr(Cancelled)
       /\ \A s \in Sessions :
             /\ Inside(s, "appointment_functions", "cancel_appointment")
             /\ dpc'[s] # "dispatch"
             /\ Head(dq[s]).input.kw.confirmation_code.type = "str"
             /\ IsCancelled(APPOINTMENTS,
                            strip(upper(Head(dq[s]).input.kw.confirmation_code.s)))
             => result'[s].text.template =
                   "I've cancelled your {visa_type} consultation ..."]_vars

\* C26: in every step no appointment in the table is on a Sunday, by the
\* name of its day or by its date; and the step in which book_appointment
\* returns for a date that resolves to a Sunday, on the day the call is made,
\* leaves the table as it was and refuses the booking.
C26_NoAppointmentOnSunday ==
    [][/\ \A i \in Idx(APPOINTMENTS') :
             /\ APPOINTMENTS'[i].apt.day # "Sunday"
             /\ APPOINTMENTS'[i].apt.date % 7 # 6
       /\ \A s \in Sessions :
             /\ Inside(s, "appointment_functions", "book_appointment")
             /\ dpc'[s] # "dispatch"
             /\ Head(dq[s]).input.kw.date.type = "str"
             /\ parse_date(Head(dq[s]).input.kw.date.s, now') % 7 = 6
             => /\ APPOINTMENTS' = APPOINTMENTS
                /\ result'[s].text.template = "I'm sorry, we're closed on Sundays. ..."]_vars

\* An appointment is booked, and a booking for "12/23", which is the Sunday
\* that follows the day of the call, was refused.
C26_Witness ==
    /\ APPOINTMENTS # <<>>
    /\ \E s \in Sessions :
          /\ result[s].text.template = "I'm sorry, we're closed on Sundays. ..."
          /\ d_recv[s][Len(d_recv[s])].msg = Book(Dec23)
          /\ now + 1 = DaysBefore(12) + 22

====
